---- MODULE Spec2Model ----
(***************************************************************************)
(* Token-based pagination and sync state of tap-sherpa.                    *)
(*                                                                         *)
(* The model follows PaginatedStream.get_records_with_token                *)
(* (src/tap_sherpa/pagination.py), the retry decorator of _make_request,   *)
(* the state advance of _increment_stream_state and the state file         *)
(* handling of TapSherpa._load_state / emit_state (src/tap_sherpa/tap.py). *)
(* One run of the generator is one behaviour; the remote service is a      *)
(* mock transport whose answers are chosen nondeterministically.           *)
(***************************************************************************)
EXTENDS Integers, Sequences, FiniteSets, TLC

(***************************************************************************)
(* Bounds of the model.                                                    *)
(***************************************************************************)
MaxToken == 3
MaxPageLen == 2
MaxFetches == 3
MaxStart == 2
MaxCfgRetries == 2

VARIABLES
    name,            \* self.name of the stream that runs
    config,          \* self.config: max_retries, security_code, <name>_per_request
    state_file,      \* content of state.json
    tap_state,       \* self._tap_state["bookmarks"], the in-memory state
    total_records,   \* self._total_records
    pc,              \* position of the generator get_records_with_token
    last_token,      \* local last_token
    call_params,     \* local call_params, as sent with the last request
    attempts,        \* attempts made by the retry wrapper for the current page
    waits,           \* waits inserted between the attempts of the current page
    last_exception,  \* exception of the last failed attempt of the call in progress
    fetches,         \* pages requested in this run
    response,        \* local response of the current iteration
    response_time,   \* local response_time
    items,           \* local items
    idx,             \* position of the for loop over items
    highest_token,   \* local highest_token
    emitted,         \* records yielded for the current page, in order
    emitted_count,   \* records yielded in this run
    advances,        \* calls of _increment_stream_state in this run
    flushes,         \* calls of _write_state_message in this run
    raised,          \* exception that left the generator ("" while none did)
    max_seen,        \* history: largest of the starting cursor and the item tokens read
    last_write,      \* history: outcome of the last write of state.json in this run
    out_of_order,    \* history: some page had its largest token before its last item
    undelivered,     \* history: backlog tokens above the first starting cursor not yielded yet
    flushed,         \* history: cursor of the stream in the last successful write of state.json
    prev_attempts,   \* history: attempts the fetch of the page before took, until the next request
    backlog,         \* tokens held by the backlog transport
    page_size,       \* page size of the backlog transport (0: mock transport)
    first_run        \* result of the first of two compared runs

\* what no step of a run changes
env == <<name, config, backlog, page_size, first_run>>

vars == <<name, config, state_file, tap_state, total_records, pc, last_token,
          call_params, attempts, waits, fetches, response, response_time, items,
          idx, highest_token, emitted, emitted_count, advances, flushes, raised,
          max_seen, last_write, out_of_order, undelivered, flushed, backlog,
          page_size, first_run, last_exception, prev_attempts>>

(***************************************************************************)
(* Python values: int, str (a sequence of characters; 0..9 are the digits, *)
(* NonDigit any other character) and None.                                 *)
(***************************************************************************)
NonDigit == 10

IntVal(n) == [t |-> "int", n |-> n, s |-> <<>>]
StrVal(s) == [t |-> "str", n |-> 0, s |-> s]
NoneVal == [t |-> "none", n |-> 0, s |-> <<>>]

RECURSIVE Digits(_)
Digits(n) == IF n < 10 THEN <<n>> ELSE Append(Digits(n \div 10), n % 10)

RECURSIVE ParseDigits(_)
ParseDigits(s) ==
    IF s = <<>> THEN 0
    ELSE 10 * ParseDigits(SubSeq(s, 1, Len(s) - 1)) + s[Len(s)]

\* str(v) for an int or a str
PyStr(v) == IF v.t = "int" THEN Digits(v.n) ELSE v.s

\* int(v) raises for None and for a str that is not a decimal number
CanInt(v) ==
    \/ v.t = "int"
    \/ v.t = "str" /\ v.s # <<>> /\ \A i \in 1..Len(v.s) : v.s[i] \in 0..9

PyInt(v) == IF v.t = "int" THEN v.n ELSE ParseDigits(v.s)

(***************************************************************************)
(* Streams, state entries and the state file.                              *)
(***************************************************************************)
Streams == {"changed_items", "changed_orders"}

\* a stream class built on PaginatedStream whose name map_record does not know
UnmappedStream == "unmapped"

StreamNames == Streams \cup {UnmappedStream}

\* a bookmark of one stream: no entry, an entry without replication_key_value,
\* or an entry with replication_key_value
NoEntry == [kind |-> "none", rkv |-> 0]
EntryNoRkv == [kind |-> "norkv", rkv |-> 0]
Entry(n) == [kind |-> "rkv", rkv |-> n]

NoBookmarks == [s \in StreamNames |-> NoEntry]

FileAbsent == [status |-> "absent", bookmarks |-> NoBookmarks]
FileCorrupt == [status |-> "corrupt", bookmarks |-> NoBookmarks]
FileOf(b) == [status |-> "ok", bookmarks |-> b]

\* a loader that leaves an entry without value for every stream when the
\* file cannot be read
_load_state_with_entries(f) ==
    IF f.status = "ok" THEN f.bookmarks ELSE [s \in StreamNames |-> EntryNoRkv]

\* TapSherpa._load_state: the bookmarks of a readable file are merged into the
\* in-memory state; an absent or unreadable file leaves it without bookmarks
_load_state(f) == IF f.status = "ok" THEN f.bookmarks ELSE NoBookmarks

\* the configuration as a second source of the starting token
get_starting_value_from_config(st, nm) ==
    CASE st[nm].kind = "rkv" -> IntVal(st[nm].rkv)
      [] st[nm].kind = "norkv" -> NoneVal
      [] OTHER -> StrVal(PyStr(IntVal(config.stream_tokens[nm])))

\* PaginatedStream.get_starting_replication_key_value
get_starting_replication_key_value(st, nm) ==
    CASE st[nm].kind = "rkv" -> IntVal(st[nm].rkv)
      [] st[nm].kind = "norkv" -> NoneVal
      [] OTHER -> StrVal(<<1>>)

\* the cursor a run of stream nm starts from, given the in-memory state st
Cursor(st, nm) ==
    LET v == get_starting_replication_key_value(st, nm)
    IN  IF v.t = "none" THEN 1 ELSE PyInt(v)

(***************************************************************************)
(* The remote service.  A response is None or a mapping with ResponseTime  *)
(* and, possibly, ResponseValue; ResponseValue is a scalar or a mapping    *)
(* that may hold the item key; the value at the item key is a list of      *)
(* items or a single object.  An item may lack its Token, and a Token is   *)
(* an int or a string that is not a number.                                *)
(***************************************************************************)
ResponseTimes == {0, 1}

BadToken == StrVal(<<NonDigit>>)

Item(has, tok) == [has |-> has, Token |-> tok]

Items ==
    {Item(TRUE, IntVal(n)) : n \in 1..MaxToken}
        \cup {Item(FALSE, NoneVal), Item(TRUE, BadToken)}

RECURSIVE SeqsUpTo(_, _)
SeqsUpTo(S, n) ==
    IF n = 0 THEN {<<>>}
    ELSE LET shorter == SeqsUpTo(S, n - 1)
         IN  shorter \cup {Append(q, x) : q \in {r \in shorter : Len(r) = n - 1}, x \in S}

Pages == SeqsUpTo(Items, MaxPageLen)

AnItem == Item(TRUE, IntVal(MaxToken))

Leaf(kind, list) == [kind |-> kind, list |-> list]

Leaves ==
    {Leaf("absent", <<>>), Leaf("object", <<AnItem>>)}
        \cup {Leaf("list", p) : p \in Pages}

ResponseValue(kind, leaf) == [kind |-> kind, leaf |-> leaf]

ResponseValues ==
    {ResponseValue("absent", Leaf("absent", <<>>)),
     ResponseValue("scalar", Leaf("absent", <<>>))}
        \cup {ResponseValue("dict", l) : l \in Leaves}

Response(isdict, rt, rv) == [isdict |-> isdict, ResponseTime |-> rt, ResponseValue |-> rv]

\* the service returned None; also the value of response before a request
NoResponse == Response(FALSE, 0, ResponseValue("absent", Leaf("absent", <<>>)))

Responses ==
    {NoResponse}
        \cup {Response(TRUE, rt, rv) : rt \in ResponseTimes, rv \in ResponseValues}

\* the walk along response_path "ResponseValue.<item key>": a missing key or a
\* value that is not a mapping gives {}
EmptyDict == Leaf("absent", <<>>)

Extract(resp) ==
    LET first == IF resp.ResponseValue.kind = "absent"
                 THEN ResponseValue("dict", EmptyDict)
                 ELSE resp.ResponseValue
    IN  IF first.kind = "dict" THEN first.leaf ELSE EmptyDict

\* an empty list is not taken as the end of the backlog
IsEmptyDictOnly(extracted) == extracted.kind = "absent"

\* only an empty list is taken as the end of the backlog
IsEmptyListOnly(extracted) == extracted.kind = "list" /\ extracted.list = <<>>

\* not items or items == {}
IsEmpty(extracted) ==
    \/ extracted.kind = "absent"
    \/ extracted.kind = "list" /\ extracted.list = <<>>

\* if not isinstance(items, list): items = []
EnsureList(extracted) == IF extracted.kind = "list" THEN extracted.list ELSE <<>>

(***************************************************************************)
(* The retry decorator of _make_request.                                   *)
(***************************************************************************)
\* stop=stop_after_attempt(3)
StopAfterAttempt == 3

\* wait=wait_exponential(multiplier=1, min=4, max=10)
WaitMultiplier == 1
WaitMin == 4
WaitMax == 10

Max(a, b) == IF a > b THEN a ELSE b
Min(a, b) == IF a < b THEN a ELSE b

\* an exponential wait with neither floor nor cap
wait_exponential_unbounded(attempt_number) ==
    WaitMultiplier * 2 ^ (attempt_number - 1)

\* the wait after the failed attempt number attempt_number
wait_exponential(attempt_number) ==
    Max(Max(0, WaitMin), Min(WaitMultiplier * 2 ^ (attempt_number - 1), WaitMax))

\* what call_service may raise: a SOAP fault or a failure of the connection
ExceptionKinds == {"Fault", "ConnectionError"}

\* a decorator that retries failures of the connection only
retry_if_connection_error(exc) == exc = "ConnectionError"

\* the decorator names no retry condition: every exception is retried
retry_if_exception_type(exc) == exc \in ExceptionKinds

\* the attempt count is kept from one call of _make_request to the next
same_retry_state(attempt_number) == attempt_number

\* every call of _make_request counts its attempts anew
new_retry_state(attempt_number) == 0

\* a decorator that allows one attempt more
stop_after_attempt_late(attempt_number) == attempt_number > StopAfterAttempt

\* a decorator that gives up one attempt early
stop_after_attempt_early(attempt_number) == attempt_number >= StopAfterAttempt - 1

\* the decorator stops retrying once this many attempts were made
stop_after_attempt(attempt_number) == attempt_number >= StopAfterAttempt

(***************************************************************************)
(* Pieces of get_records_with_token.                                       *)
(***************************************************************************)
\* highest_token seeded at 0 instead of the request token
InitialHighestZero(lt) == 0

\* highest_token = int(last_token)
InitialHighest(lt) == PyInt(lt)

\* the tokens of the items are not taken up
NextHighestKeep(highest, item_token) == highest

\* the token of the last item wins
NextHighestLast(highest, item_token) == item_token

\* if item_token > highest_token: highest_token = item_token
NextHighest(highest, item_token) ==
    IF item_token > highest THEN item_token ELSE highest

\* item.get("Token", 0)
ItemTokenField(item) == IF item.has THEN item.Token ELSE IntVal(0)

\* if highest_token > 0
ShouldAdvance(highest, lt) == highest > 0

\* a mapper with a record for the items of every stream
map_record_of_any(nm, item) ==
    [some |-> TRUE, token |-> IF item.has THEN item.Token ELSE NoneVal]

\* map_record: every stream of the tap has a branch of its own, and the
\* record takes the item's Token as it is (None when the item has none)
map_record(nm, item) ==
    IF nm \in Streams
    THEN [some |-> TRUE, token |-> IF item.has THEN item.Token ELSE NoneVal]
    ELSE [some |-> FALSE, token |-> NoneVal]

\* a record that is given no measurement of its page
RecordWithoutTime(mapped, rt) == [token |-> mapped.token, response_time |-> 0]

\* record["response_time"] = response_time
Record(mapped, rt) == [token |-> mapped.token, response_time |-> rt]

\* a bookmark one past the highest token of the page
_increment_stream_state_past(st, nm, token) ==
    [st EXCEPT ![nm] = Entry(PyInt(token) + 1)]

\* _increment_stream_state: the stream's bookmark takes int(token) as its
\* replication_key_value
_increment_stream_state(st, nm, token) ==
    [st EXCEPT ![nm] = Entry(PyInt(token))]

\* the per-request parameter of get_records: only some streams have one
PerRequestParam(nm, cfg) ==
    IF nm = "changed_orders" THEN StrVal(Digits(cfg.per_request)) ELSE NoneVal

(***************************************************************************)
(* Initial state: the tap was constructed, state.json was loaded, and the  *)
(* generator of one stream was created by get_records.                     *)
(***************************************************************************)
DefaultPerRequest == 500

\* stream_tokens of the configuration: an initial token for every stream
StreamTokens == [s \in Streams |-> MaxToken]

Configs ==
    {[max_retries |-> m, security_code |-> "sc", per_request |-> DefaultPerRequest,
      stream_tokens |-> StreamTokens] :
        m \in 1..MaxCfgRetries}

InitEntries == {NoEntry, EntryNoRkv} \cup {Entry(n) : n \in 1..MaxStart}

\* the entry of the running stream nm takes every shape, the entries of the
\* other streams of the tap are absent or hold a cursor; a stream outside
\* the tap has an entry only when it is the one that runs
OtherEntries == {NoEntry, Entry(MaxStart)}

InitFiles(nm) ==
    {FileAbsent, FileCorrupt}
        \cup {FileOf(b) : b \in {f \in [StreamNames -> InitEntries] :
                /\ \A o \in Streams \ {nm} : f[o] \in OtherEntries
                /\ \A o \in StreamNames \ (Streams \cup {nm}) : f[o] = NoEntry}}

NoRun ==
    [done |-> FALSE, cursor |-> 0, total |-> 0, emitted |-> 0, size |-> 0,
     file |-> FileAbsent, at |-> ""]

InitLocals ==
    /\ config \in Configs
    /\ state_file \in InitFiles(name)
    /\ tap_state = _load_state(state_file)
    /\ total_records = 0
    /\ pc = "start"
    /\ last_token = NoneVal
    /\ call_params =
           [securityCode |-> config.security_code,
            token |-> get_starting_replication_key_value(tap_state, name),
            count |-> PerRequestParam(name, config)]
    /\ attempts = 0
    /\ waits = <<>>
    /\ fetches = 0
    /\ response = NoResponse
    /\ response_time = 0
    /\ items = <<>>
    /\ idx = 0
    /\ highest_token = 0
    /\ emitted = <<>>
    /\ emitted_count = 0
    /\ advances = 0
    /\ flushes = 0
    /\ raised = ""
    /\ max_seen = Cursor(tap_state, name)
    /\ last_write = "none"
    /\ out_of_order = FALSE
    /\ last_exception = ""
    /\ prev_attempts = 0

InitRun ==
    /\ name \in Streams
    /\ InitLocals

Init ==
    /\ InitRun
    /\ backlog = {}
    /\ page_size = 0
    /\ first_run = NoRun
    /\ undelivered = {}
    /\ flushed = 0

(***************************************************************************)
(* The run of get_records_with_token.                                      *)
(***************************************************************************)
\* lines 277-282: the initial token comes from the state, 1 when it is None
Start ==
    /\ pc = "start"
    /\ last_token' =
           LET v == get_starting_replication_key_value(tap_state, name)
           IN  IF v.t = "none" THEN IntVal(1) ELSE v
    /\ pc' = "fetching"
    /\ UNCHANGED <<env, undelivered, flushed, state_file, tap_state, total_records, call_params,
                   attempts, waits, fetches, response_time, items, idx, highest_token,
                   emitted, emitted_count, advances, flushes, raised, max_seen, last_write,
                   response, out_of_order, last_exception, prev_attempts>>

\* a page may be requested while the bound on fetches allows it; the
\* attempts of a page already requested always go on
MayAttempt == pc = "fetching" /\ (attempts > 0 \/ fetches < MaxFetches)

\* a request that loses its page-size parameter
AttemptDroppingCount ==
    /\ call_params' = [call_params EXCEPT !.token = last_token, !.count = NoneVal]
    /\ attempts' = attempts + 1
    /\ fetches' = IF attempts = 0 THEN fetches + 1 ELSE fetches
    /\ prev_attempts' = 0

\* a request that keeps the token of the request before
AttemptKeepingToken ==
    /\ call_params' = call_params
    /\ attempts' = attempts + 1
    /\ fetches' = IF attempts = 0 THEN fetches + 1 ELSE fetches
    /\ prev_attempts' = 0

\* the request of one attempt: call_params[token_param_name] = last_token,
\* every parameter is sent as a string
Attempt ==
    /\ call_params' = [call_params EXCEPT !.token = last_token]
    /\ attempts' = attempts + 1
    /\ fetches' = IF attempts = 0 THEN fetches + 1 ELSE fetches
    /\ prev_attempts' = 0

\* one attempt of _make_request fails: the decorator waits and tries again,
\* or gives up and raises
RequestFail ==
    /\ MayAttempt
    /\ Attempt
    /\ \E exc \in ExceptionKinds :
          /\ last_exception' = exc
          /\ IF ~retry_if_exception_type(exc)
             THEN /\ pc' = "error"
                  /\ raised' = exc
                  /\ waits' = waits
             ELSE IF stop_after_attempt(attempts + 1)
             THEN /\ pc' = "error"
                  /\ raised' = "RetryError"
                  /\ waits' = waits
             ELSE /\ pc' = "fetching"
                  /\ raised' = raised
                  /\ waits' = Append(waits, wait_exponential(attempts + 1))
    /\ UNCHANGED <<env, undelivered, flushed, state_file, tap_state, total_records, last_token,
                   response_time, items, idx, highest_token, emitted, emitted_count,
                   advances, flushes, max_seen, last_write, response, out_of_order>>

\* lines 288-307 on the response of a successful attempt
Receive(resp) ==
    /\ last_exception' = ""
    /\ IF ~resp.isdict
       THEN /\ pc' = "error"
            /\ raised' = "AttributeError"
            /\ UNCHANGED <<response_time, items, idx, highest_token, emitted>>
       ELSE /\ response_time' = resp.ResponseTime
            /\ raised' = raised
            /\ IF IsEmpty(Extract(resp))
               THEN /\ pc' = "done"
                    /\ UNCHANGED <<items, idx, highest_token, emitted>>
               ELSE /\ items' = EnsureList(Extract(resp))
                    /\ idx' = 1
                    /\ highest_token' = InitialHighest(last_token)
                    /\ emitted' = <<>>
                    /\ pc' = IF items' = <<>> THEN "advancing" ELSE "mapping"

\* one attempt of _make_request succeeds with some response of the mock
RequestOk ==
    /\ MayAttempt
    /\ Attempt
    /\ \E resp \in Responses : response' = resp /\ Receive(resp)
    /\ UNCHANGED <<env, undelivered, flushed, state_file, tap_state, total_records, last_token,
                   waits, emitted_count, advances, flushes, max_seen, last_write,
                   out_of_order>>

\* a loop that would store the bookmark after every item instead of once per page
MapItemAdvancing ==
    /\ pc = "mapping"
    /\ LET item == items[idx]
           field == ItemTokenField(item)
           mapped == map_record(name, item)
       IN  IF ~CanInt(field)
           THEN /\ pc' = "error"
                /\ raised' = "ValueError"
                /\ UNCHANGED <<idx, highest_token, emitted, emitted_count, max_seen,
                               out_of_order, undelivered, tap_state>>
           ELSE /\ highest_token' = NextHighest(highest_token, PyInt(field))
                /\ max_seen' = Max(max_seen, PyInt(field))
                /\ out_of_order' =
                       (\/ out_of_order
                        \/ /\ idx = Len(items)
                           /\ \E i \in 1..(idx - 1) :
                                 PyInt(ItemTokenField(items[i])) > PyInt(field))
                /\ IF mapped.some
                   THEN /\ emitted' = Append(emitted, Record(mapped, response_time))
                        /\ emitted_count' = emitted_count + 1
                        /\ undelivered' = undelivered \ {PyInt(field)}
                   ELSE UNCHANGED <<emitted, emitted_count, undelivered>>
                /\ idx' = idx + 1
                /\ pc' = IF idx = Len(items) THEN "advancing" ELSE "mapping"
                /\ raised' = raised
                /\ tap_state' = _increment_stream_state(tap_state, name,
                                     IntVal(NextHighest(highest_token, PyInt(field))))
    /\ UNCHANGED <<env, flushed, state_file, total_records, last_token,
                   call_params, attempts, waits, fetches, response_time, items, advances,
                   flushes, last_write, response, last_exception, prev_attempts>>

\* lines 308-318: one iteration of the loop over items, up to its yield
MapItem ==
    /\ pc = "mapping"
    /\ LET item == items[idx]
           field == ItemTokenField(item)
           mapped == map_record(name, item)
       IN  IF ~CanInt(field)
           THEN /\ pc' = "error"
                /\ raised' = "ValueError"
                /\ UNCHANGED <<idx, highest_token, emitted, emitted_count, max_seen,
                               out_of_order, undelivered>>
           ELSE /\ highest_token' = NextHighest(highest_token, PyInt(field))
                /\ max_seen' = Max(max_seen, PyInt(field))
                /\ out_of_order' =
                       (\/ out_of_order
                        \/ /\ idx = Len(items)
                           /\ \E i \in 1..(idx - 1) :
                                 PyInt(ItemTokenField(items[i])) > PyInt(field))
                /\ IF mapped.some
                   THEN /\ emitted' = Append(emitted, Record(mapped, response_time))
                        /\ emitted_count' = emitted_count + 1
                        /\ undelivered' = undelivered \ {PyInt(field)}
                   ELSE UNCHANGED <<emitted, emitted_count, undelivered>>
                /\ idx' = idx + 1
                /\ pc' = IF idx = Len(items) THEN "advancing" ELSE "mapping"
                /\ raised' = raised
    /\ UNCHANGED <<env, flushed, state_file, tap_state, total_records, last_token,
                   call_params, attempts, waits, fetches, response_time, items, advances,
                   flushes, last_write, response, last_exception, prev_attempts>>

\* lines 320-326 and 328-330: the token of the next request and the state
\* advance, or the end of the pagination
Advance ==
    /\ pc = "advancing"
    /\ IF ShouldAdvance(highest_token, last_token)
       THEN /\ last_token' = StrVal(PyStr(IntVal(highest_token)))
            /\ tap_state' = _increment_stream_state(tap_state, name, last_token')
            /\ total_records' = total_records + 1
            /\ advances' = advances + 1
            /\ pc' = "flushing"
       ELSE /\ pc' = "done"
            /\ UNCHANGED <<last_token, tap_state, total_records, advances>>
    /\ UNCHANGED <<env, undelivered, flushed, state_file, call_params, attempts, waits, fetches,
                   response_time, items, idx, highest_token, emitted, emitted_count,
                   flushes, raised, max_seen, last_write, response, out_of_order,
                   last_exception, prev_attempts>>

\* TapSherpa.emit_state: state.json is rewritten with the whole state; a
\* failure is logged and swallowed.  open() may fail (the file stays) or
\* json.dump may fail after open() truncated the file.
WriteOutcomes == {"ok", "open_failed", "dump_failed"}

\* a writer that stores the stream one token ahead of the state
emit_state_ahead(file, st, outcome) ==
    CASE outcome = "ok" -> FileOf([st EXCEPT ![name] = Entry(st[name].rkv + 1)])
      [] outcome = "open_failed" -> file
      [] OTHER -> FileCorrupt

emit_state(file, st, outcome) ==
    CASE outcome = "ok" -> FileOf(st)
      [] outcome = "open_failed" -> file
      [] OTHER -> FileCorrupt

\* line 327: _write_state_message, then the loop goes back to the request;
\* the locals of the finished iteration are dead
WriteState ==
    /\ pc = "flushing"
    /\ \E outcome \in WriteOutcomes :
          /\ state_file' = emit_state(state_file, tap_state, outcome)
          /\ last_write' = outcome
          /\ flushed' = IF outcome = "ok" THEN Cursor(tap_state, name) ELSE flushed
    /\ flushes' = flushes + 1
    /\ pc' = "fetching"
    /\ attempts' = new_retry_state(attempts)
    /\ prev_attempts' = attempts
    /\ waits' = <<>>
    /\ items' = <<>>
    /\ idx' = 0
    /\ emitted' = <<>>
    /\ response' = NoResponse
    /\ response_time' = 0
    /\ UNCHANGED <<env, undelivered, tap_state, total_records, last_token, call_params,
                   fetches, highest_token, emitted_count, advances, raised, max_seen,
                   out_of_order, last_exception>>

Next ==
    \/ Start
    \/ RequestFail
    \/ RequestOk
    \/ MapItem
    \/ Advance
    \/ WriteState

Spec == Init /\ [][Next]_vars

\* the run of a stream that map_record has no branch for
InitUnmapped ==
    /\ name = UnmappedStream
    /\ InitLocals
    /\ backlog = {}
    /\ page_size = 0
    /\ first_run = NoRun
    /\ undelivered = {}
    /\ flushed = 0

SpecUnmapped == InitUnmapped /\ [][Next]_vars

TypeOK ==
    /\ pc \in {"start", "fetching", "mapping", "advancing", "flushing", "done", "error"}
    /\ attempts \in 0..StopAfterAttempt
    /\ fetches \in 0..MaxFetches

(***************************************************************************)
(* Two runs over the same backlog.  The transport holds a finite set of    *)
(* tokens and answers a request for cursor c with the page_size smallest   *)
(* tokens above c, in ascending order; it never fails.  When the first run *)
(* is DONE, a second tap is started on the same state.json and the same    *)
(* backlog with another page size.                                         *)
(***************************************************************************)
Backlogs == SUBSET (1..MaxToken)

PageSizes == 1..MaxPageLen

RECURSIVE Ascending(_)
Ascending(S) ==
    IF S = {} THEN <<>>
    ELSE LET least == CHOOSE t \in S : \A u \in S : t <= u
         IN  <<Item(TRUE, IntVal(least))>> \o Ascending(S \ {least})

ServePage(bl, sent, size) ==
    LET above == Ascending({t \in bl : t > PyInt(StrVal(sent))})
    IN  SubSeq(above, 1, Min(size, Len(above)))

InitPair ==
    /\ InitRun
    /\ backlog \in Backlogs
    /\ page_size \in PageSizes
    /\ first_run = [NoRun EXCEPT !.file = state_file]
    /\ undelivered = {}
    /\ flushed = 0

\* a request answered by the backlog transport
FetchBacklog ==
    /\ MayAttempt
    /\ page_size > 0
    /\ Attempt
    /\ response' =
           Response(TRUE, 0, ResponseValue("dict",
               Leaf("list", ServePage(backlog, PyStr(last_token), page_size))))
    /\ Receive(response')
    /\ UNCHANGED <<env, undelivered, flushed, state_file, tap_state, total_records, last_token, waits,
                   emitted_count, advances, flushes, max_seen, last_write,
                   out_of_order>>

\* TapSherpa.__init__ of the second tap: the result of the first run is kept
\* for the comparison, state.json is the one the first run started from
SecondRun ==
    /\ pc = "done"
    /\ ~first_run.done
    /\ first_run' =
           [first_run EXCEPT !.done = TRUE,
                             !.cursor = Cursor(tap_state, name),
                             !.total = total_records,
                             !.emitted = emitted_count,
                             !.size = page_size,
                             !.at = pc]
    /\ page_size' \in PageSizes \ {page_size}
    /\ name' = name
    /\ config' = config
    /\ backlog' = backlog
    /\ state_file' = first_run.file
    /\ tap_state' = _load_state(state_file')
    /\ total_records' = 0
    /\ pc' = "start"
    /\ last_token' = NoneVal
    /\ call_params' =
           [securityCode |-> config.security_code,
            token |-> get_starting_replication_key_value(tap_state', name),
            count |-> PerRequestParam(name, config)]
    /\ attempts' = 0
    /\ waits' = <<>>
    /\ fetches' = 0
    /\ response' = NoResponse
    /\ response_time' = 0
    /\ items' = <<>>
    /\ idx' = 0
    /\ highest_token' = 0
    /\ emitted' = <<>>
    /\ emitted_count' = 0
    /\ advances' = 0
    /\ flushes' = 0
    /\ raised' = ""
    /\ max_seen' = Cursor(tap_state', name)
    /\ last_write' = "none"
    /\ out_of_order' = FALSE
    /\ last_exception' = ""
    /\ prev_attempts' = 0
    /\ UNCHANGED <<undelivered, flushed>>

NextPair ==
    \/ Start
    \/ FetchBacklog
    \/ MapItem
    \/ Advance
    \/ WriteState
    \/ SecondRun

SpecPair == InitPair /\ [][NextPair]_vars

(***************************************************************************)
(* An invocation that is killed or ends, followed by a new invocation that *)
(* starts from the state.json the first one left.                          *)
(***************************************************************************)
InitResume ==
    /\ InitRun
    /\ backlog \in Backlogs
    /\ page_size \in PageSizes
    /\ first_run = [NoRun EXCEPT !.file = state_file]
    /\ undelivered = {t \in backlog : t > Cursor(tap_state, name)}
    /\ flushed = 0

\* the process of the first invocation stops wherever it is (killed, failed
\* or finished); TapSherpa.__init__ of the next invocation reads state.json
\* as it was left and every object of the run is built anew
Restart ==
    /\ ~first_run.done
    /\ first_run' =
           [first_run EXCEPT !.done = TRUE,
                             !.cursor = Cursor(tap_state, name),
                             !.total = total_records,
                             !.emitted = emitted_count,
                             !.size = page_size,
                             !.at = pc]
    /\ state_file' = state_file
    /\ tap_state' = _load_state(state_file)
    /\ total_records' = 0
    /\ pc' = "start"
    /\ last_token' = NoneVal
    /\ call_params' =
           [securityCode |-> config.security_code,
            token |-> get_starting_replication_key_value(tap_state', name),
            count |-> PerRequestParam(name, config)]
    /\ attempts' = 0
    /\ waits' = <<>>
    /\ fetches' = 0
    /\ response' = NoResponse
    /\ response_time' = 0
    /\ items' = <<>>
    /\ idx' = 0
    /\ highest_token' = 0
    /\ emitted' = <<>>
    /\ emitted_count' = 0
    /\ advances' = 0
    /\ flushes' = 0
    /\ raised' = ""
    /\ max_seen' = Cursor(tap_state', name)
    /\ last_write' = "none"
    /\ out_of_order' = FALSE
    /\ last_exception' = ""
    /\ prev_attempts' = 0
    /\ UNCHANGED <<name, config, backlog, page_size, undelivered, flushed>>

NextResume ==
    \/ Start
    \/ FetchBacklog
    \/ RequestFail
    \/ MapItem
    \/ Advance
    \/ WriteState
    \/ Restart

SpecResume == InitResume /\ [][NextResume]_vars

(***************************************************************************)
(* A run over a backlog with a transport that never fails permanently: a   *)
(* request fails fewer times in a row than the decorator allows attempts.  *)
(* The run is driven until the generator is exhausted.                     *)
(***************************************************************************)
\* backlogs that the bound on fetches lets a run finish
LiveBacklogs == {b \in Backlogs : Cardinality(b) < MaxFetches}

InitLive ==
    /\ InitRun
    /\ backlog \in LiveBacklogs
    /\ page_size \in PageSizes
    /\ first_run = NoRun
    /\ undelivered = {}
    /\ flushed = 0

\* a failed attempt that is not the last one the decorator allows
RequestFailTransient ==
    /\ ~stop_after_attempt(attempts + 1)
    /\ RequestFail

NextLive ==
    \/ Start
    \/ FetchBacklog
    \/ RequestFailTransient
    \/ MapItem
    \/ Advance
    \/ WriteState

SpecLive == InitLive /\ [][NextLive]_vars /\ WF_vars(NextLive)

(***************************************************************************)
(* Properties.                                                             *)
(***************************************************************************)
\* the cursor a new invocation would start stream name from, given state.json
FileCursor(f) == Cursor(_load_state(f), name)

\* the cursor sent with the request of the current page
RequestCursor == PyInt(call_params.token)

\* the token of an item of the current page, once it could be read
TokenOf(i) == PyInt(ItemTokenField(items[i]))

\* the current page is a non-empty page none of whose tokens exceeds the
\* request cursor, and all its items were processed
StagnantPage ==
    /\ pc \in {"advancing", "flushing"}
    /\ items # <<>>
    /\ highest_token = RequestCursor

\* C1: the persisted cursor of the stream never decreases, whatever tokens
\* the pages contain: the replication_key_value of the stream state never
\* decreases, every successful write of state.json stores the value the
\* stream state holds, and a readable file never holds a lower value than
\* the readable file it replaces.
C1_Monotonic ==
    [][/\ Cursor(tap_state', name) >= Cursor(tap_state, name)
       /\ (state_file' # state_file /\ state_file'.status = "ok"
              => /\ FileCursor(state_file') = Cursor(tap_state', name)
                 /\ state_file.status = "ok"
                       => FileCursor(state_file') >= FileCursor(state_file))]_vars

\* a page with an item token below the request cursor was processed and the
\* state was advanced for it
C1_Witness ==
    /\ pc = "flushing"
    /\ \E i \in 1..Len(items) : TokenOf(i) < RequestCursor
    /\ tap_state[name] = Entry(RequestCursor)

\* C2: after a non-empty page whose highest token equals the request
\* cursor, the run is DONE and no further fetch is made.
C2_StagnantStops ==
    [][pc = "advancing" /\ StagnantPage => pc' = "done" /\ fetches' = fetches]_vars

\* C3: a non-empty page whose highest token equals the request cursor causes
\* no state advance and no flush: stream state, counter and state file stay.
C3_StagnantNoPersist ==
    [][StagnantPage
         => UNCHANGED <<tap_state, total_records, state_file, advances, flushes>>]_vars

\* C4: a response with zero items ends the run at once: the run is DONE
\* after this one fetch, nothing was emitted for it, stream state, counter and
\* state file are as before the fetch, and DONE is final.
C4_EmptyPageStops ==
    /\ [][(/\ pc = "fetching"
           /\ response'.isdict
           /\ Extract(response') \in {Leaf("absent", <<>>), Leaf("list", <<>>)})
            => /\ pc' = "done"
               /\ fetches' <= fetches + 1
               /\ UNCHANGED <<tap_state, total_records, state_file, emitted_count,
                              advances, flushes, last_token>>]_vars
    /\ [][pc # "done"]_vars

\* the first fetch of a run returned an empty list and the run is DONE
C4_Witness ==
    /\ pc = "done"
    /\ fetches = 1
    /\ Extract(response) = Leaf("list", <<>>)
    /\ state_file.status = "ok"

\* C5: when every attempt of a page fetch fails, the transport was invoked
\* exactly 3 times for the page when the error leaves the run, the failing
\* attempts change neither stream state nor counter nor state file, and
\* nothing happens after the error.
C5_RetryExhaustion ==
    /\ [](raised = "RetryError" => pc = "error" /\ attempts = 3)
    /\ [][pc = "fetching" /\ pc' \in {"fetching", "error"}
            => UNCHANGED <<tap_state, total_records, state_file, emitted_count>>]_vars
    /\ [][pc # "error"]_vars

\* the fetch of the first page was given up: nothing was flushed in the run
C5_Witness ==
    /\ raised = "RetryError"
    /\ fetches = 1
    /\ flushes = 0
    /\ state_file.status = "ok"

\* C6: a page fetch that failed fewer than 3 times is not given up; a
\* success after k failures is attempt k+1, the failed attempts emitted
\* nothing and changed no state, and the run goes on with the returned page
\* exactly as after a first-attempt success.
C6_RetryThenSuccess ==
    /\ [][pc = "fetching" /\ attempts + 1 < 3 => raised' # "RetryError"]_vars
    /\ [][pc = "fetching"
            => /\ attempts' = attempts + 1
               /\ UNCHANGED <<tap_state, total_records, state_file, emitted_count,
                              last_token>>
               /\ (response'.isdict /\ ~IsEmpty(Extract(response'))
                     => /\ items' = EnsureList(Extract(response'))
                        /\ highest_token' = PyInt(last_token)
                        /\ pc' \in {"mapping", "advancing"}
                        /\ waits' = waits)]_vars

\* a page arrived at the third attempt, after two failures and two waits
C6_Witness ==
    /\ pc = "mapping"
    /\ attempts = 3
    /\ Len(waits) = 2

\* C7: a page fetch that keeps failing is attempted exactly
\* config.max_retries times before the error propagates.
C7_ConfiguredBudget ==
    raised = "RetryError" => attempts = config.max_retries

\* C8: two runs over the same backlog from the same starting cursor, served
\* in different page sizes, end with the same final cursor and the same
\* processed-record counter.
C8_PageSizeIndependence ==
    pc = "done" /\ first_run.done
        => /\ Cursor(tap_state, name) = first_run.cursor
           /\ total_records = first_run.total

\* C9: the processed-record counter is incremented once per processed
\* record, and after a run that reaches DONE it equals the number of records
\* emitted in the run.
C9_CounterCountsRecords ==
    /\ [][emitted_count' = emitted_count + 1 => total_records' = total_records + 1]_vars
    /\ [](pc = "done" => total_records = emitted_count)

\* C10: after a run that reaches DONE the persisted cursor is the maximum of
\* the starting cursor and every item token of the processed pages: the
\* stream state holds it, and so does state.json unless the last write of
\* the run failed.
C10_FinalCursorIsMax ==
    pc = "done"
        => /\ Cursor(tap_state, name) = max_seen
           /\ last_write \in {"none", "ok"} => FileCursor(state_file) = max_seen

\* a run that processed a page whose largest token was not its last one is
\* DONE with a cursor above the starting one, flushed to state.json
C10_Witness ==
    /\ pc = "done"
    /\ out_of_order
    /\ last_write = "ok"
    /\ tap_state[name] = Entry(MaxToken)

\* state.json does not hold what the last flush was to write
WriteFailed == last_write \in {"open_failed", "dump_failed"}

\* C11: every fetch that follows a page which advanced the cursor is issued
\* after the state advance and the flush of that page, and at that moment the
\* cursor stored in state.json equals the cursor sent with the fetch.
C11_FlushBeforeFetch ==
    [][(/\ pc = "fetching" /\ fetches >= 1 /\ fetches' = fetches + 1
        /\ PyInt(call_params'.token) > RequestCursor)
         => /\ flushes = advances
            /\ state_file.status = "ok"
            /\ FileCursor(state_file) = PyInt(call_params'.token)]_vars

\* C12: after a failed write of state.json no further fetch is issued.
C12_WriteFailureIsFatal ==
    [][WriteFailed => fetches' = fetches /\ attempts' = attempts]_vars

\* C13: a run started from the persisted cursor C emits no record whose
\* token is at most C; stated for the records of the first page of the run,
\* whose request cursor is C.
C13_NoReEmission ==
    (fetches = 1 /\ advances = 0 /\ tap_state[name].kind = "rkv")
        => \A i \in 1..Len(emitted) :
              emitted[i].token.t = "int" => emitted[i].token.n > RequestCursor

\* C16: a single object at the item path is processed as a page of one
\* item: the object is the only item of the page that is mapped.
C16_SingleObjectIsOneItem ==
    [][(pc = "fetching" /\ response'.isdict /\ Extract(response').kind = "object")
         => /\ items' = Extract(response').list
            /\ pc' = "mapping"]_vars

\* the item key is missing from the response at some depth, or
\* ResponseValue is not a mapping
PathMissing(resp) ==
    /\ resp.isdict
    /\ \/ resp.ResponseValue.kind \in {"absent", "scalar"}
       \/ resp.ResponseValue.kind = "dict" /\ resp.ResponseValue.leaf.kind = "absent"

\* C17: a response in which a key of the item path is missing, or in which
\* the value on the way is not a mapping, raises nothing and ends the run in
\* DONE as an empty page does: no record, no state change.
C17_LenientExtraction ==
    [][(pc = "fetching" /\ PathMissing(response'))
         => /\ pc' = "done"
            /\ raised' = ""
            /\ UNCHANGED <<tap_state, total_records, state_file, emitted_count,
                           advances, flushes, last_token>>]_vars

\* the run is DONE on a response without ResponseValue
C17_Witness ==
    /\ pc = "done"
    /\ response.isdict
    /\ response.ResponseValue.kind = "absent"
    /\ advances = 1

\* C18: an item whose Token is absent or is not a number is processed with
\* token 0: no error, highest_token unchanged, its record emitted.
C18_TokenDefaultsToZero ==
    [][(pc = "mapping" /\ (~items[idx].has \/ ~CanInt(items[idx].Token)))
         => /\ raised' = ""
            /\ pc' # "error"
            /\ highest_token' = highest_token
            /\ emitted_count' = emitted_count + 1]_vars

C20_AllOrNothing ==
    /\ [][(pc = "fetching" \/ pc = "mapping")
             => UNCHANGED <<tap_state, state_file>>]_vars
    /\ [](\/ pc = "mapping"
          \/ (pc = "error" /\ raised = "ValueError")
              => Cursor(tap_state, name) = RequestCursor)

\* the second item of a page raised after the first one was emitted with a
\* token above the cursor of the request
C20_Witness ==
    /\ pc = "error"
    /\ raised = "ValueError"
    /\ idx = 2
    /\ Len(emitted) >= 1
    /\ emitted[Len(emitted)].token.t = "int"
    /\ emitted[Len(emitted)].token.n > RequestCursor

\* C14: the first fetch of a new invocation is sent with the cursor the
\* previous invocation last flushed for the stream.
C14_ResumeFromFlushed ==
    [][(/\ first_run.done
        /\ pc = "fetching"
        /\ fetches = 0
        /\ fetches' = 1
        /\ flushed > 0)
         => PyStr(call_params'.token) = Digits(flushed)]_vars

\* C15: when an invocation is stopped at any point and the next one, started
\* from the state.json left behind, reaches DONE, every item of the backlog
\* with a token above the initial cursor was emitted by one of the two.
C15_AtLeastOnce ==
    (first_run.done /\ pc = "done") => undelivered = {}

\* the first invocation was stopped between the items of a page, after it
\* had flushed an earlier page, and the second one finished the backlog
C15_Witness ==
    /\ first_run.done
    /\ first_run.at = "mapping"
    /\ first_run.emitted >= 1
    /\ flushed > 0
    /\ pc = "done"
    /\ emitted_count >= 1
    /\ undelivered = {}

\* the record the mapper of a stream of the tap gives for item i of the
\* current page, with the response time of that page
RecordOfItem(i) ==
    [token |-> IF items[i].has THEN items[i].Token ELSE NoneVal,
     response_time |-> response.ResponseTime]

\* a page is being processed or was processed up to the item that raised
InPage ==
    \/ pc \in {"mapping", "advancing", "flushing"}
    \/ pc = "error" /\ raised = "ValueError"

\* C21: the records emitted for a page are, at every moment, the records of
\* the items read so far, in the order of the response and with the response
\* time of the page; one record is emitted per item read, and the state is
\* advanced only after the record of the last item was emitted.
C21_EmissionOrder ==
    /\ [](InPage => /\ Len(emitted) = idx - 1
                    /\ \A i \in 1..Len(emitted) : emitted[i] = RecordOfItem(i))
    /\ [][Len(emitted') = Len(emitted) + 1
            => /\ idx' = idx + 1
               /\ emitted' = Append(emitted, RecordOfItem(idx))
               /\ UNCHANGED <<tap_state, state_file, advances>>]_vars
    /\ [][advances' = advances + 1
            => Len(emitted) = Len(items) /\ emitted' = emitted]_vars

\* a page of two items with descending tokens and a response time of 1 was
\* emitted in the order of the response
C21_Witness ==
    /\ pc = "advancing"
    /\ Len(emitted) = 2
    /\ response.ResponseTime = 1
    /\ emitted[1].response_time = 1
    /\ emitted[1].token.t = "int"
    /\ emitted[2].token.t = "int"
    /\ emitted[1].token.n > emitted[2].token.n

\* the largest of the request cursor and the tokens of the current page
PageMax ==
    LET S == {RequestCursor} \cup {TokenOf(i) : i \in 1..Len(items)}
    IN  CHOOSE m \in S : \A x \in S : x <= m

\* C22: for a stream whose items the mapper drops, no record is emitted for
\* an item, the token of the item still raises highest_token, and a page of
\* such items advances the stream state (and state.json, when the write
\* succeeds) to the maximum token of the page.
C22_DroppedItemsAdvance ==
    /\ [][(name \notin Streams /\ pc = "mapping")
            => /\ emitted_count' = emitted_count
               /\ emitted' = emitted
               /\ (idx' = idx + 1
                      => highest_token' = Max(highest_token, TokenOf(idx)))]_vars
    /\ []((name \notin Streams /\ pc = "flushing" /\ items # <<>>)
            => Cursor(tap_state, name) = PageMax)
    /\ [][(/\ name \notin Streams
           /\ pc = "flushing"
           /\ items # <<>>
           /\ flushes' = flushes + 1
           /\ last_write' = "ok")
            => FileCursor(state_file') = PageMax]_vars

\* a page of dropped items was flushed: nothing was emitted and state.json
\* holds the highest token of the page
C22_Witness ==
    /\ name \notin Streams
    /\ pc = "fetching"
    /\ flushes = 1
    /\ last_write = "ok"
    /\ emitted_count = 0
    /\ highest_token = MaxToken
    /\ max_seen = MaxToken
    /\ FileCursor(state_file) = MaxToken

\* C23: no step of a run changes a request parameter other than the token.
C23_StaticParams ==
    [][/\ call_params'.securityCode = call_params.securityCode
       /\ call_params'.count = call_params.count]_vars

\* the second request of changed_orders was sent with a new token and the
\* count of the first
C23_Witness ==
    /\ fetches >= 2
    /\ name = "changed_orders"
    /\ call_params.count = StrVal(Digits(DefaultPerRequest))
    /\ PyStr(call_params.token) = Digits(MaxToken)

\* C24: the flush that follows an advance of the cursor of the stream leaves
\* the cursor that state.json holds for every other stream as it was before
\* the flush.
C24_FlushKeepsOtherStreams ==
    [][(flushes' = flushes + 1 /\ PyInt(last_token) > RequestCursor)
         => \A o \in StreamNames \ {name} :
               _load_state(state_file')[o] = _load_state(state_file)[o]]_vars

\* C25: the fetch that follows a page with highest_token above its request
\* cursor is sent with highest_token, after as many state advances and
\* flushes as there were pages; an advance is always followed by its flush
\* before the next advance.
C25_CursorHandOver ==
    /\ [][(/\ pc = "fetching"
           /\ fetches >= 1
           /\ fetches' = fetches + 1
           /\ highest_token > RequestCursor)
            => /\ PyStr(call_params'.token) = Digits(highest_token)
               /\ advances = fetches
               /\ flushes = fetches]_vars
    /\ [](/\ flushes <= advances
          /\ advances <= flushes + 1
          /\ (pc = "flushing" <=> advances = flushes + 1))

\* the second request was sent with the highest token of the first page,
\* after one advance and one flush
C25_Witness ==
    /\ pc = "fetching"
    /\ fetches = 2
    /\ attempts = 1
    /\ advances = 1
    /\ flushes = 1
    /\ highest_token = MaxToken
    /\ RequestCursor = MaxToken

\* C26: the attempts counted against the budget are those of the page that
\* is being fetched: the first attempt of every page is attempt 1, and a
\* fetch is given up only after StopAfterAttempt attempts of its own.
C26_BudgetPerPage ==
    /\ [](pc = "fetching" => attempts = Len(waits))
    /\ [][(pc = "fetching" /\ fetches' = fetches + 1) => attempts' = 1]_vars
    /\ [][(pc = "fetching" /\ pc' = "error" /\ raised' = "RetryError")
            => Len(waits) = StopAfterAttempt - 1]_vars

\* the fetch of the first page took every attempt of the budget and the
\* second page is about to be fetched with no attempt counted
C26_Witness ==
    /\ pc = "fetching"
    /\ fetches = 1
    /\ flushes = 1
    /\ prev_attempts = StopAfterAttempt
    /\ attempts = 0

\* C27: a failed attempt that is not the last of the budget is followed by
\* another attempt whatever was raised, and a fetch ends with an error only
\* by the exhaustion of the budget.
C27_EveryFailureRetried ==
    /\ [][(/\ pc = "fetching"
           /\ attempts' = attempts + 1
           /\ last_exception' # ""
           /\ attempts' < StopAfterAttempt)
            => pc' = "fetching" /\ raised' = ""]_vars
    /\ [][(pc = "fetching" /\ pc' = "error" /\ last_exception' # "")
            => raised' = "RetryError" /\ attempts' = StopAfterAttempt]_vars

\* two attempts failed, the second with a SOAP fault, and the fetch goes on
C27_Witness ==
    /\ pc = "fetching"
    /\ attempts = 2
    /\ Len(waits) = 2
    /\ last_exception = "Fault"

\* C28: over a finite backlog served in ascending order by a transport that
\* never fails permanently, the run reaches DONE and every fetch after the
\* first is sent with a cursor above the one of the fetch before.
C28_Termination ==
    /\ <>(pc = "done")
    /\ [][(fetches >= 1 /\ fetches' = fetches + 1)
            => PyInt(call_params'.token) > RequestCursor]_vars

\* a run of three fetches over two pages of items ended
C28_Witness ==
    /\ pc = "done"
    /\ fetches >= 3
    /\ advances >= 2
    /\ emitted_count >= 2

\* C29: the token used for the requests is never below the cursor that
\* state.json holds, and state.json changes only in the flush that follows
\* the last item of a page, to the highest_token of that page.
C29_StoredCursorBehind ==
    /\ [](pc # "start" => PyInt(last_token) >= FileCursor(state_file))
    /\ [][state_file' # state_file
            => /\ pc = "flushing"
               /\ idx = Len(items) + 1
               /\ (state_file'.status = "ok"
                      => FileCursor(state_file') = highest_token)]_vars

\* the second page is being processed and one of its tokens is above the
\* cursor that state.json holds since the flush of the first page
C29_Witness ==
    /\ pc = "mapping"
    /\ fetches = 2
    /\ idx = 2
    /\ last_write = "ok"
    /\ highest_token > PyInt(last_token)
    /\ FileCursor(state_file) = PyInt(last_token)
    /\ FileCursor(state_file) = flushed

\* C30: when state.json cannot be read the tap starts without bookmarks and
\* without an error, and the first fetch of the stream is sent with cursor 1.
C30_UnreadableStateFile ==
    /\ []((pc = "start" /\ state_file.status = "corrupt")
            => tap_state = NoBookmarks /\ raised = "")
    /\ [][(/\ pc = "fetching"
           /\ fetches = 0
           /\ fetches' = 1
           /\ state_file.status = "corrupt")
            => PyStr(call_params'.token) = <<1>>]_vars

\* an invocation that had persisted a cursor above 1 left an unreadable
\* state.json, and the next invocation sent its first fetch with cursor 1
C30_Witness ==
    /\ first_run.done
    /\ first_run.cursor > 1
    /\ flushed > 1
    /\ state_file.status = "corrupt"
    /\ fetches = 1
    /\ RequestCursor = 1

\* C31: every wait between two attempts of a page fetch is at least 4 and
\* at most 10, the waits of a fetch never decrease, a wait follows every
\* failed attempt but the last one of the budget and no attempt that
\* succeeded; the waits the decorator computes for later attempt numbers
\* stay within the same bounds and never decrease.
C31_BackoffBounds ==
    /\ [](\A i \in 1..Len(waits) : waits[i] >= 4 /\ waits[i] <= 10)
    /\ [](\A i \in 1..(Len(waits) - 1) : waits[i] <= waits[i + 1])
    /\ [](attempts >= 1
            => Len(waits) = IF pc = "fetching" THEN attempts ELSE attempts - 1)
    /\ [](\A n \in 1..WaitMax :
             /\ wait_exponential(n) >= 4
             /\ wait_exponential(n) <= 10
             /\ wait_exponential(n) <= wait_exponential(n + 1))

\* the budget of a fetch was used up: two waits of 4 between the three
\* attempts and none after the third
C31_Witness ==
    /\ pc = "error"
    /\ raised = "RetryError"
    /\ attempts = StopAfterAttempt
    /\ waits = <<4, 4>>
    /\ wait_exponential(WaitMax) = 10

====
